---- MODULE Spec2Model ----
(***************************************************************************)
(* Vision MCP server: the tools/call handler (McpServer), the controller,   *)
(* the orchestrator (AnalyzeImageUseCase.execute), the image loading /     *)
(* validation pipeline (ImageProcessor) and the remote analysis client     *)
(* (OpenRouterService), as one request moving through its await points.    *)
(* The file system, the HTTP transport and the decoder (sharp) are the     *)
(* environment: each await draws its outcome from the outcomes that        *)
(* collaborator can produce.  Further specifications cover several         *)
(* requests in flight, the shutdown handlers of main.ts and ConfigManager. *)
(***************************************************************************)
EXTENDS Integers, Sequences, FiniteSets, TLC

VARIABLES
  pc,         \* position of the request inside execute / loadImage / analyzeImage
  source,     \* the locator string passed to execute (abstracted, see Sources)
  args,       \* the model and prompt arguments passed to execute
  fileIO,     \* what fs.access / readFileSync reported: "none", "ok" or an errno
  imgFetch,   \* what the image GET reported: "none", "ok", "notOk", "netErr"
  data,       \* the bytes obtained by the loader (<<>> before they are read)
  validRes,   \* outcome of the loader's validateImage call
  loadOut,    \* outcome of loadImage
  revalid,    \* outcome of execute's own validateImage call
  payload,    \* outcome of prepareImageForAPI
  sent,       \* the request bodies POSTed to the remote endpoint, in order
  timer,      \* the timeout timer of callOpenRouterAPI
  apiOk,      \* response.ok of the remote analysis call (<<>> before headers)
  apiBody,    \* the parsed body of the remote analysis call (<<>> before it is read)
  analyzeOut, \* outcome of analyzeImage
  execOut,    \* outcome of execute
  tool,       \* a direct call of an ImageProcessor method, outside execute
  call,       \* the tools/call request the server received
  loads,      \* the file-system and HTTP operations of the loader, in order
  ctrlOut,    \* outcome of ImageAnalysisController.analyzeImage
  toolOut,    \* outcome of the tools/call handler
  reqs,       \* requests served concurrently (a sequence, empty when not modelled)
  proc,       \* the process and its shutdown handlers
  cfg         \* the ConfigManager singleton

vars == <<pc, source, args, fileIO, imgFetch, data, validRes, loadOut, revalid,
          payload, sent, timer, apiOk, apiBody, analyzeOut, execOut, tool,
          call, loads, ctrlOut, toolOut, reqs, proc, cfg>>

----------------------------------------------------------------------------
(* Optional values (JavaScript undefined) and call outcomes *)

None == <<>>
Some(x) == <<x>>

Pending == [st |-> "pending"]
Returned(v) == [st |-> "returned", val |-> v]
Threw(e) == [st |-> "threw", err |-> e]

----------------------------------------------------------------------------
(* Errors.  A message is the set of the fragments it contains: what         *)
(* message.includes(...) can observe.                                       *)

Err(name, msg, cause) == [name |-> name, msg |-> msg, cause |-> cause]

ImageProcessingError(msg, cause) ==
  Err("ImageProcessingError", {"Image processing failed"} \cup msg, cause)

ImageAnalysisError(msg, cause) ==
  Err("ImageAnalysisError", {"Vision analysis failed"} \cup msg, cause)

InvalidImageError(reason) ==
  Err("InvalidImageError", {"Invalid image"} \cup reason, None)

ImageNotFoundError(src) ==
  Err("ImageNotFoundError", {"Image not found"} \cup src, None)

UnsupportedModelError ==
  Err("UnsupportedModelError", {"is not supported"}, None)

\* the four failure kinds execute is specified to let through
DomainErrorNames ==
  {"ImageNotFoundError", "InvalidImageError", "ImageProcessingError", "ImageAnalysisError"}

----------------------------------------------------------------------------
(* Configuration *)

maxSizeBytes == 10485760

supportedFormats == {"jpg", "jpeg", "png", "gif", "bmp", "webp"}

defaultModel == "anthropic/claude-3.5-sonnet"

----------------------------------------------------------------------------
(* Locators.  cls is what new URL(source) makes of the string; enoent says  *)
(* whether the string contains the characters ENOENT.                       *)

LocatorClasses == {"http", "https", "ftp", "malformed", "path"}

Sources == [cls : LocatorClasses, enoent : BOOLEAN]

\* the fragments of a message that embeds the locator
PathText(src) == IF src.enoent THEN {"ENOENT"} ELSE {}

\* new URL(source): the protocol, or a TypeError for a string that is no absolute URL
URLParse(src) ==
  CASE src.cls = "http" -> Returned("http:")
    [] src.cls = "https" -> Returned("https:")
    [] src.cls = "ftp" -> Returned("ftp:")
    [] OTHER -> Threw(Err("TypeError", {"Invalid URL"}, None))

isUrlAnyScheme(src) == URLParse(src).st = "returned"

isUrl(src) ==
  LET url == URLParse(src)
  IN IF url.st = "threw" THEN FALSE
     ELSE url.val = "http:" \/ url.val = "https:"

----------------------------------------------------------------------------
(* Byte buffers, as the decoder sees them.  len is the byte length;         *)
(* decodable says whether sharp(buf).metadata() succeeds, and then format,  *)
(* width and height are what it reports (each possibly undefined); pixels   *)
(* says whether the full decode in toBuffer() succeeds.                     *)

DecoderFormats == {"jpeg", "png", "gif", "bmp", "webp", "tiff"}

SampleDims == {0, 1, 1024, 1025}

OptDims == {None} \cup {Some(d) : d \in SampleDims}

OptFormats == {None} \cup {Some(f) : f \in DecoderFormats}

Undecodable(len) ==
  [len |-> len, decodable |-> FALSE, format |-> None, width |-> None,
   height |-> None, pixels |-> FALSE, hasAlpha |-> None, space |-> None,
   density |-> None]

\* the bytes a locator can lead to; alpha, colour space and density play no part in
\* the pipeline and are held at one value here (ToolImages varies them)
Images ==
  {Undecodable(n) : n \in {0, 1, maxSizeBytes + 1}}
  \cup [len : {1, maxSizeBytes, maxSizeBytes + 1}, decodable : {TRUE},
        format : OptFormats, width : OptDims, height : OptDims, pixels : BOOLEAN,
        hasAlpha : {Some(FALSE)}, space : {Some("srgb")}, density : {Some(72)}]

SharpError == Err("Error", {"Input buffer contains unsupported image format"}, None)

\* sharp(buf).metadata()
SharpMetadata(img) ==
  IF img.decodable
  THEN Returned([format |-> img.format, width |-> img.width, height |-> img.height,
                 hasAlpha |-> img.hasAlpha, space |-> img.space,
                 density |-> img.density])
  ELSE Threw(SharpError)

\* JavaScript truthiness of an optional number
TruthyNum(x) == x # None /\ x[1] # 0

\* JavaScript truthiness of an optional string
TruthyStr(x) == x # None /\ x[1] # ""

validateImageAcceptAll(img) == Returned(TRUE)

validateImageNoCatch(img) ==
  LET metadata == SharpMetadata(img)
  IN IF metadata.st = "threw" THEN metadata
     ELSE IF metadata.val.format = None
             \/ metadata.val.format[1] \notin supportedFormats THEN Returned(FALSE)
     ELSE IF img.len > maxSizeBytes THEN Returned(FALSE)
     ELSE IF ~TruthyNum(metadata.val.width) \/ ~TruthyNum(metadata.val.height)
             \/ metadata.val.width[1] < 1 \/ metadata.val.height[1] < 1
          THEN Returned(FALSE)
     ELSE Returned(TRUE)

validateImageSizeOffByOne(img) ==
  LET metadata == SharpMetadata(img)
  IN IF metadata.st = "threw" THEN Returned(FALSE)
     ELSE IF metadata.val.format = None
             \/ metadata.val.format[1] \notin supportedFormats THEN Returned(FALSE)
     ELSE IF img.len >= maxSizeBytes THEN Returned(FALSE)
     ELSE IF ~TruthyNum(metadata.val.width) \/ ~TruthyNum(metadata.val.height)
             \/ metadata.val.width[1] < 1 \/ metadata.val.height[1] < 1
          THEN Returned(FALSE)
     ELSE Returned(TRUE)

\* ImageProcessor.validateImage
validateImage(img) ==
  LET metadata == SharpMetadata(img)
  IN IF metadata.st = "threw" THEN Returned(FALSE)
     ELSE IF metadata.val.format = None
             \/ metadata.val.format[1] \notin supportedFormats THEN Returned(FALSE)
     ELSE IF img.len > maxSizeBytes THEN Returned(FALSE)
     ELSE IF ~TruthyNum(metadata.val.width) \/ ~TruthyNum(metadata.val.height)
             \/ metadata.val.width[1] < 1 \/ metadata.val.height[1] < 1
          THEN Returned(FALSE)
     ELSE Returned(TRUE)

\* ImageProcessor.extractMetadata; every field of ImageMetadata is optional
extractMetadata(img) ==
  LET metadata == SharpMetadata(img)
  IN IF metadata.st = "threw"
     THEN Threw(ImageProcessingError({"Failed to extract image metadata"},
                                     Some(metadata.err)))
     ELSE Returned([width |-> Some(IF TruthyNum(metadata.val.width)
                                   THEN metadata.val.width[1] ELSE 0),
                    height |-> Some(IF TruthyNum(metadata.val.height)
                                    THEN metadata.val.height[1] ELSE 0),
                    format |-> Some(IF TruthyStr(metadata.val.format)
                                    THEN metadata.val.format[1] ELSE "unknown"),
                    size |-> Some(img.len),
                    hasAlpha |-> Some(metadata.val.hasAlpha = Some(TRUE)),
                    colorSpace |-> Some(IF TruthyStr(metadata.val.space)
                                        THEN metadata.val.space[1] ELSE "unknown"),
                    density |-> IF TruthyNum(metadata.val.density)
                                THEN metadata.val.density ELSE None])

----------------------------------------------------------------------------
(* Raw errors of the collaborators *)

\* a Node fs error: "<errno>: <description>, <syscall> '<path>'"
FsError(errno, src) == Err("Error", {errno} \cup PathText(src), None)

\* node-fetch's rejection when the request cannot be made or the body breaks off
FetchError(src) == Err("FetchError", {"request failed"} \cup PathText(src), None)

\* loadFromUrl's own error for a response that is not ok
HttpStatusError == Err("Error", {"HTTP status"}, None)

----------------------------------------------------------------------------
(* ImageProcessor: the catch blocks of the loader *)

loadFromFileCatchNoENOENT(error, src) ==
  IF error.name = "InvalidImageError" THEN error
  ELSE ImageProcessingError({"Failed to load file"} \cup PathText(src), Some(error))

\* loadFromFile, catch (error)
loadFromFileCatch(error, src) ==
  IF "ENOENT" \in error.msg
  THEN ImageNotFoundError({"File not found"} \cup PathText(src))
  ELSE IF error.name = "InvalidImageError" THEN error
  ELSE ImageProcessingError({"Failed to load file"} \cup PathText(src), Some(error))

\* loadFromUrl, catch (error)
loadFromUrlCatch(error, src) ==
  IF error.name = "InvalidImageError" THEN error
  ELSE ImageProcessingError({"Failed to load image from URL"} \cup PathText(src),
                            Some(error))

\* loadImage, catch (error)
loadImageCatch(error, src) ==
  IF error.name = "ImageNotFoundError" \/ error.name = "InvalidImageError"
  THEN error
  ELSE ImageProcessingError({"Failed to load image from source"} \cup PathText(src),
                            Some(error))

\* the ImageSource loadFromFile / loadFromUrl return
ImageSourceNoData(type, buf, metadata) ==
  [type |-> type, data |-> None, metadata |-> Some(metadata)]

ImageSource(type, buf, metadata) ==
  [type |-> type, data |-> Some(buf), metadata |-> Some(metadata)]

----------------------------------------------------------------------------
(* Variable groups *)

callVars == <<source, args, tool, call, reqs, proc, cfg>>
loaderVars == <<fileIO, imgFetch, data, validRes, loadOut, loads>>
replyVars == <<ctrlOut, toolOut>>
remoteVars == <<payload, sent, timer, apiOk, apiBody, analyzeOut>>

\* the optional model and prompt arguments a caller can pass: each none, empty
\* or a text
Args ==
  {[model |-> None, prompt |-> None],
   [model |-> Some(""), prompt |-> Some("")],
   [model |-> Some("openai/gpt-4o"), prompt |-> None],
   [model |-> None, prompt |-> Some("What is in this picture?")],
   [model |-> Some("openai/gpt-4o"), prompt |-> Some("What is in this picture?")]}

\* no direct call of an ImageProcessor method is in progress
ToolIdle == [op |-> "none"]

----------------------------------------------------------------------------
(* The tools/call boundary: McpServer and ImageAnalysisController *)

\* what args.source can be, by its typeof and its truthiness
NoSource == [type |-> "undefined", truthy |-> FALSE]

RawSources ==
  {NoSource,
   [type |-> "object", truthy |-> FALSE],
   [type |-> "number", truthy |-> FALSE],
   [type |-> "number", truthy |-> TRUE],
   [type |-> "boolean", truthy |-> TRUE],
   [type |-> "string", truthy |-> FALSE],
   [type |-> "string", truthy |-> TRUE]}

\* the tools/call requests: a tool name and an arguments payload, which is
\* missing, null, a primitive, an array, or an object with any source
McpCalls ==
  [name : {"analyze_image"}, kind : {"undefined", "null", "string", "number", "array"},
   src : {NoSource}]
  \cup [name : {"analyze_image"}, kind : {"object"}, src : RawSources]
  \cup [name : {"list_models", "unknown_tool"}, kind : {"undefined"}, src : {NoSource}]

\* the call carries a source that execute will be given
WellFormed(c) ==
  c.name = "analyze_image" /\ c.kind = "object" /\ c.src = [type |-> "string", truthy |-> TRUE]

\* a tool response: content[0].text and isError
ToolResponse(text, isError) == [text |-> text, isError |-> isError]

handleAnalyzeImageNoTry(c) ==
  IF c.kind \notin {"object", "array"}
  THEN Threw(Err("Error", {"Invalid arguments provided"}, None))
  ELSE IF ~c.src.truthy \/ c.src.type # "string"
  THEN Threw(Err("Error", {"Source parameter is required and must be a string"}, None))
  ELSE Pending

\* handleAnalyzeImage up to the call of the controller: the two argument checks
\* throw inside the try, and the catch turns the error into an isError response
handleAnalyzeImage(c) ==
  IF c.kind \notin {"object", "array"}
  THEN Returned(ToolResponse([error |-> {"Invalid arguments provided"}], TRUE))
  ELSE IF ~c.src.truthy \/ c.src.type # "string"
  THEN Returned(ToolResponse(
                  [error |-> {"Source parameter is required and must be a string"}], TRUE))
  ELSE Pending

\* handleAnalyzeImage after the controller has returned
handleAnalyzeImageReply(result) ==
  IF result.success
  THEN ToolResponse([analysis |-> result.data[1].analysis, model |-> result.data[1].model,
                     metadata |-> result.data[1].metadata,
                     source |-> result.data[1].source, usage |-> result.data[1].usage],
                    FALSE)
  ELSE ToolResponse([error |-> result.error[1].message], TRUE)

\* handleListModels, with getAvailableModels and getDefaultModel
handleListModels ==
  ToolResponse([available_models |-> <<>>, default_model |-> defaultModel,
                total_count |-> 0], FALSE)

\* ImageAnalysisController.createErrorResponse
createErrorResponse(code, message, details) ==
  [success |-> FALSE, data |-> None,
   error |-> Some([code |-> code, message |-> message, details |-> details])]

CauseMessage(error) ==
  IF error.cause = None THEN None ELSE Some(error.cause[1].msg)

\* ImageAnalysisController.handleError
handleError(error) ==
  CASE error.name = "ImageNotFoundError" ->
         createErrorResponse("IMAGE_NOT_FOUND", error.msg, None)
    [] error.name = "InvalidImageError" ->
         createErrorResponse("INVALID_IMAGE", error.msg, None)
    [] error.name = "ImageProcessingError" ->
         createErrorResponse("IMAGE_PROCESSING_ERROR", error.msg,
                             Some([cause |-> CauseMessage(error)]))
    [] error.name = "ImageAnalysisError" ->
         createErrorResponse("ANALYSIS_ERROR", error.msg,
                             Some([cause |-> CauseMessage(error)]))
    [] OTHER ->
         createErrorResponse("INTERNAL_ERROR",
                             {"An unexpected error occurred during vision analysis"},
                             Some([originalError |-> error.msg]))

\* ImageAnalysisController.analyzeImage after execute has settled
\* (timestamp and path left out)
controllerAnalyzeImage(out) ==
  IF out.st = "threw" THEN handleError(out.err)
  ELSE [success |-> TRUE,
        data |-> Some([id |-> out.val.id, analysis |-> out.val.analysis,
                       model |-> out.val.model,
                       metadata |-> out.val.imageSource.metadata,
                       source |-> [type |-> out.val.imageSource.type],
                       usage |-> out.val.usage]),
        error |-> None]

\* execute settles with out; the continuations of the controller and of
\* handleAnalyzeImage follow without another await
ExecuteSettles(out) ==
  /\ execOut' = out
  /\ ctrlOut' = Returned(controllerAnalyzeImage(out))
  /\ toolOut' = Returned(handleAnalyzeImageReply(ctrlOut'.val))
  /\ pc' = "done"

\* nothing outside the request pipeline is in progress
SideIdle == reqs = <<>> /\ proc = <<>> /\ cfg = <<>>

\* a tools/call request has arrived.  source and args hold args.source, args.model
\* and args.prompt of a well-formed call; a call rejected before execute never
\* reads them
Init ==
  /\ pc = "request"
  /\ call \in McpCalls
  /\ IF WellFormed(call)
     THEN source \in Sources /\ args \in Args
     ELSE source = [cls |-> "path", enoent |-> FALSE] /\ args = [model |-> None, prompt |-> None]
  /\ tool = ToolIdle
  /\ SideIdle
  /\ loads = <<>>
  /\ ctrlOut = Pending
  /\ toolOut = Pending
  /\ fileIO = "none"
  /\ imgFetch = "none"
  /\ data = None
  /\ validRes = Pending
  /\ loadOut = Pending
  /\ revalid = Pending
  /\ payload = Pending
  /\ sent = <<>>
  /\ timer = "unset"
  /\ apiOk = None
  /\ apiBody = None
  /\ analyzeOut = Pending
  /\ execOut = Pending

----------------------------------------------------------------------------
(* McpServer: the CallTool request handler, up to the first await of the call *)

\* setupHandlers' switch on the tool name, handleAnalyzeImage's argument checks,
\* and the controller's own check of request.source
CallTool ==
  /\ pc = "request"
  /\ CASE call.name = "analyze_image" ->
            LET early == handleAnalyzeImage(call)
            IN IF early # Pending
               THEN toolOut' = early /\ pc' = "replied" /\ UNCHANGED ctrlOut
               ELSE IF ~call.src.truthy
               THEN /\ ctrlOut' = Returned(createErrorResponse(
                                             "INVALID_REQUEST", {"Image source is required"},
                                             None))
                    /\ toolOut' = Returned(handleAnalyzeImageReply(ctrlOut'.val))
                    /\ pc' = "replied"
               ELSE pc' = "start" /\ UNCHANGED replyVars
       [] call.name = "list_models" ->
            toolOut' = Returned(handleListModels) /\ pc' = "replied" /\ UNCHANGED ctrlOut
       [] OTHER ->
            /\ toolOut' = Threw(Err("Error", {"Unknown tool"}, None))
            /\ pc' = "replied"
            /\ UNCHANGED ctrlOut
  /\ UNCHANGED <<callVars, loaderVars, revalid, remoteVars, execOut>>

----------------------------------------------------------------------------
(* AnalyzeImageUseCase.execute, entry: the call of imageProcessor.loadImage *)

Execute ==
  /\ pc = "start"
  /\ pc' = "loadImage"
  /\ UNCHANGED <<callVars, loaderVars, revalid, remoteVars, execOut, replyVars>>

----------------------------------------------------------------------------
(* ImageProcessor.loadImage *)

\* loadImage: the branch on isUrl(source)
LoadImage ==
  /\ pc = "loadImage"
  /\ pc' = IF isUrl(source) THEN "loadFromUrl" ELSE "loadFromFile"
  /\ UNCHANGED <<callVars, loaderVars, revalid, remoteVars, execOut, replyVars>>

\* an error thrown inside loadFromFile reaches loadImage's caller through both catches
FileLoadThrows(error) ==
  /\ loadOut' = Threw(loadImageCatch(loadFromFileCatch(error, source), source))
  /\ pc' = "loadSettled"

\* an error thrown inside loadFromUrl reaches loadImage's caller through both catches
UrlLoadThrows(error) ==
  /\ loadOut' = Threw(loadImageCatch(loadFromUrlCatch(error, source), source))
  /\ pc' = "loadSettled"

\* loadFromFile: await fs.access(filePath)
FsAccess ==
  /\ pc = "loadFromFile"
  /\ loads' = Append(loads, "access")
  /\ \E r \in {"ok", "ENOENT", "EACCES"} :
       /\ fileIO' = r
       /\ IF r = "ok"
          THEN pc' = "readFile" /\ UNCHANGED loadOut
          ELSE FileLoadThrows(FsError(r, source))
  /\ UNCHANGED <<callVars, imgFetch, data, validRes, revalid, remoteVars, execOut, replyVars>>

\* loadFromFile: readFileSync(filePath)
ReadFile ==
  /\ pc = "readFile"
  /\ loads' = Append(loads, "readFile")
  /\ \/ \E buf \in Images :
          /\ data' = Some(buf)
          /\ pc' = "fileValidate"
          /\ UNCHANGED <<fileIO, loadOut>>
     \/ \E r \in {"ENOENT", "EACCES", "EISDIR"} :
          /\ fileIO' = r
          /\ FileLoadThrows(FsError(r, source))
          /\ UNCHANGED data
  /\ UNCHANGED <<callVars, imgFetch, validRes, revalid, remoteVars, execOut, replyVars>>

FileValidateNoThrow ==
  /\ pc = "fileValidate"
  /\ validRes' = validateImage(data[1])
  /\ pc' = "fileExtract"
  /\ UNCHANGED <<callVars, loads, fileIO, imgFetch, data, loadOut, revalid, remoteVars,
                 execOut, replyVars>>

\* loadFromFile: if (!await this.validateImage(data)) throw new InvalidImageError
FileValidate ==
  /\ pc = "fileValidate"
  /\ validRes' = validateImage(data[1])
  /\ IF validRes'.st = "threw" THEN FileLoadThrows(validRes'.err)
     ELSE IF ~validRes'.val
          THEN FileLoadThrows(InvalidImageError({"Invalid image file"}
                                                \cup PathText(source)))
     ELSE pc' = "fileExtract" /\ UNCHANGED loadOut
  /\ UNCHANGED <<callVars, loads, fileIO, imgFetch, data, revalid, remoteVars, execOut, replyVars>>

\* loadFromFile: extractMetadata and the returned ImageSource
FileExtract ==
  /\ pc = "fileExtract"
  /\ LET metadata == extractMetadata(data[1])
     IN IF metadata.st = "threw" THEN FileLoadThrows(metadata.err)
        ELSE /\ loadOut' = Returned(ImageSource("file", data[1], metadata.val))
             /\ pc' = "loadSettled"
  /\ UNCHANGED <<callVars, loads, fileIO, imgFetch, data, validRes, revalid, remoteVars, execOut, replyVars>>

FetchImageRetry ==
  /\ pc = "loadFromUrl"
  /\ loads' = Append(loads, "GET")
  /\ \E r \in {"ok", "notOk", "netErr"} :
       /\ imgFetch' = r
       /\ CASE r = "ok" -> pc' = "readImageBody" /\ UNCHANGED loadOut
            [] r = "notOk" -> UrlLoadThrows(HttpStatusError)
            [] r = "netErr" ->
                 IF Len(loads) < 1 THEN pc' = "loadFromUrl" /\ UNCHANGED loadOut
                 ELSE UrlLoadThrows(FetchError(source))
  /\ UNCHANGED <<callVars, fileIO, data, validRes, revalid, remoteVars, execOut, replyVars>>

\* loadFromUrl: await fetch(url) and the test of response.ok
FetchImage ==
  /\ pc = "loadFromUrl"
  /\ loads' = Append(loads, "GET")
  /\ \E r \in {"ok", "notOk", "netErr"} :
       /\ imgFetch' = r
       /\ CASE r = "ok" -> pc' = "readImageBody" /\ UNCHANGED loadOut
            [] r = "notOk" -> UrlLoadThrows(HttpStatusError)
            [] r = "netErr" -> UrlLoadThrows(FetchError(source))
  /\ UNCHANGED <<callVars, fileIO, data, validRes, revalid, remoteVars, execOut, replyVars>>

\* loadFromUrl: await response.arrayBuffer()
ReadImageBody ==
  /\ pc = "readImageBody"
  /\ \/ \E buf \in Images :
          /\ data' = Some(buf)
          /\ pc' = "urlValidate"
          /\ UNCHANGED <<imgFetch, loadOut>>
     \/ /\ imgFetch' = "netErr"
        /\ UrlLoadThrows(FetchError(source))
        /\ UNCHANGED data
  /\ UNCHANGED <<callVars, loads, fileIO, validRes, revalid, remoteVars, execOut, replyVars>>

\* loadFromUrl: if (!await this.validateImage(data)) throw new InvalidImageError
UrlValidate ==
  /\ pc = "urlValidate"
  /\ validRes' = validateImage(data[1])
  /\ IF validRes'.st = "threw" THEN UrlLoadThrows(validRes'.err)
     ELSE IF ~validRes'.val
          THEN UrlLoadThrows(InvalidImageError({"Invalid image from URL"}
                                               \cup PathText(source)))
     ELSE pc' = "urlExtract" /\ UNCHANGED loadOut
  /\ UNCHANGED <<callVars, loads, fileIO, imgFetch, data, revalid, remoteVars, execOut, replyVars>>

\* loadFromUrl: extractMetadata and the returned ImageSource
UrlExtract ==
  /\ pc = "urlExtract"
  /\ LET metadata == extractMetadata(data[1])
     IN IF metadata.st = "threw" THEN UrlLoadThrows(metadata.err)
        ELSE /\ loadOut' = Returned(ImageSource("url", data[1], metadata.val))
             /\ pc' = "loadSettled"
  /\ UNCHANGED <<callVars, loads, fileIO, imgFetch, data, validRes, revalid, remoteVars, execOut, replyVars>>

----------------------------------------------------------------------------
(* AnalyzeImageUseCase.execute: what it does between its awaits *)

executeCatchRethrowAll(error) == error

\* execute, catch (error)
executeCatch(error) ==
  IF error.name = "ImageProcessingError" \/ error.name = "ImageAnalysisError"
  THEN error
  ELSE ImageAnalysisError({"Unexpected error during vision analysis"}, Some(error))

\* execute: loadImage has settled; if (!imageSource.data) throw
ExecuteCheckData ==
  /\ pc = "loadSettled"
  /\ IF loadOut.st = "threw"
     THEN ExecuteSettles(Threw(executeCatch(loadOut.err)))
     ELSE IF loadOut.val.data = None
     THEN ExecuteSettles(Threw(executeCatch(
                           ImageProcessingError({"Failed to load image data"}, None))))
     ELSE pc' = "validateImage" /\ UNCHANGED <<execOut, replyVars>>
  /\ UNCHANGED <<callVars, loaderVars, revalid, remoteVars>>

\* execute: await this.imageProcessor.validateImage(imageSource.data)
ExecuteValidate ==
  /\ pc = "validateImage"
  /\ revalid' = validateImage(loadOut.val.data[1])
  /\ pc' = "validateSettled"
  /\ UNCHANGED <<callVars, loaderVars, remoteVars, execOut, replyVars>>

\* execute: if (!isValid) throw
ExecuteCheckValid ==
  /\ pc = "validateSettled"
  /\ IF revalid.st = "threw"
     THEN ExecuteSettles(Threw(executeCatch(revalid.err)))
     ELSE IF ~revalid.val
     THEN ExecuteSettles(Threw(executeCatch(
                           ImageProcessingError({"Invalid image format or size"}, None))))
     ELSE pc' = "analyzeImage" /\ UNCHANGED <<execOut, replyVars>>
  /\ UNCHANGED <<callVars, loaderVars, revalid, remoteVars>>

\* execute: analyzeImage has settled; return analysis, or the catch
ExecuteReturn ==
  /\ pc = "analyzeSettled"
  /\ ExecuteSettles(IF analyzeOut.st = "threw"
                    THEN Threw(executeCatch(analyzeOut.err))
                    ELSE analyzeOut)
  /\ UNCHANGED <<callVars, loaderVars, revalid, remoteVars>>

----------------------------------------------------------------------------
(* OpenRouterService.prepareImageForAPI *)

MAX_DIMENSION == 1024
JPEG_QUALITY == 80

Max(a, b) == IF a > b THEN a ELSE b

\* the side sharp derives when only the other one is given: rounded, at least 1
ScaledSide(side, other) ==
  Max(1, (2 * side * MAX_DIMENSION + other) \div (2 * other))

\* the data URL: the label is always image/jpeg; enc is what the bytes really are
DataUrl(enc, quality, resize, w, h) ==
  [label |-> "data:image/jpeg;base64", enc |-> enc, quality |-> quality,
   resize |-> resize, width |-> w, height |-> h]

prepareImageForAPIRawWhenSmall(imageSource) ==
  IF imageSource.data = None
  THEN Threw(ImageAnalysisError({"Image data is required for analysis"}, None))
  ELSE
    LET buf == imageSource.data[1]
        metadata == SharpMetadata(buf)
    IN IF metadata.st = "threw" THEN metadata
       ELSE IF TruthyNum(metadata.val.width) /\ TruthyNum(metadata.val.height)
               /\ Max(metadata.val.width[1], metadata.val.height[1]) > MAX_DIMENSION
       THEN LET w == metadata.val.width[1]
                h == metadata.val.height[1]
            IN IF ~buf.pixels THEN Threw(SharpError)
               ELSE IF w > h
                    THEN Returned(DataUrl(Some("jpeg"), Some(JPEG_QUALITY), Some("width"),
                                          Some(MAX_DIMENSION), Some(ScaledSide(h, w))))
                    ELSE Returned(DataUrl(Some("jpeg"), Some(JPEG_QUALITY), Some("height"),
                                          Some(ScaledSide(w, h)), Some(MAX_DIMENSION)))
       ELSE Returned(DataUrl(metadata.val.format, None, None,
                             metadata.val.width, metadata.val.height))

prepareImageForAPIWidthOnly(imageSource) ==
  IF imageSource.data = None
  THEN Threw(ImageAnalysisError({"Image data is required for analysis"}, None))
  ELSE
    LET buf == imageSource.data[1]
        metadata == SharpMetadata(buf)
    IN IF metadata.st = "threw" THEN metadata
       ELSE IF TruthyNum(metadata.val.width) /\ TruthyNum(metadata.val.height)
       THEN LET w == metadata.val.width[1]
                h == metadata.val.height[1]
            IN IF ~buf.pixels THEN Threw(SharpError)
               ELSE IF Max(w, h) > MAX_DIMENSION
               THEN Returned(DataUrl(Some("jpeg"), Some(JPEG_QUALITY), Some("width"),
                                     Some(MAX_DIMENSION), Some(ScaledSide(h, w))))
               ELSE Returned(DataUrl(Some("jpeg"), Some(JPEG_QUALITY), None,
                                     Some(w), Some(h)))
       ELSE Returned(DataUrl(metadata.val.format, None, None,
                             metadata.val.width, metadata.val.height))

prepareImageForAPI(imageSource) ==
  IF imageSource.data = None
  THEN Threw(ImageAnalysisError({"Image data is required for analysis"}, None))
  ELSE
    LET buf == imageSource.data[1]
        metadata == SharpMetadata(buf)
    IN IF metadata.st = "threw" THEN metadata
       ELSE IF TruthyNum(metadata.val.width) /\ TruthyNum(metadata.val.height)
       THEN LET w == metadata.val.width[1]
                h == metadata.val.height[1]
            IN IF ~buf.pixels THEN Threw(SharpError)
               ELSE IF Max(w, h) > MAX_DIMENSION
               THEN IF w > h
                    THEN Returned(DataUrl(Some("jpeg"), Some(JPEG_QUALITY), Some("width"),
                                          Some(MAX_DIMENSION), Some(ScaledSide(h, w))))
                    ELSE Returned(DataUrl(Some("jpeg"), Some(JPEG_QUALITY), Some("height"),
                                          Some(ScaledSide(w, h)), Some(MAX_DIMENSION)))
               ELSE Returned(DataUrl(Some("jpeg"), Some(JPEG_QUALITY), None,
                                     Some(w), Some(h)))
       ELSE Returned(DataUrl(metadata.val.format, None, None,
                             metadata.val.width, metadata.val.height))

----------------------------------------------------------------------------
(* The remote endpoint's response bodies *)

MaxChoices == 2

Contents == {None, Some(""), Some("text")}

Choices == {[message |-> None]} \cup {[message |-> Some([content |-> c])] : c \in Contents}

\* the choices arrays: up to MaxChoices entries, any first entry, and the entries
\* after it all alike
ChoiceLists ==
  {[k \in 1..n |-> IF k = 1 THEN c ELSE t] : n \in 0..MaxChoices, c \in Choices, t \in Choices}

\* the usage counters of a response
SampleUsage == [prompt_tokens |-> 7, completion_tokens |-> 5, total_tokens |-> 12]

\* id and usage of a response: both missing, an empty id, or both present
ResponseMeta ==
  {[id |-> None, usage |-> None],
   [id |-> Some(""), usage |-> None],
   [id |-> Some("gen-1"), usage |-> Some(SampleUsage)]}

\* the model the remote side names in its response: never one the caller asked for
ResponseModel == Some("openrouter/auto")

Bodies ==
  {[kind |-> k, choices |-> None, id |-> None, usage |-> None, model |-> None] :
     k \in {"notJSON", "null"}}
  \cup {[kind |-> "object", choices |-> cs, id |-> m.id, usage |-> m.usage,
         model |-> ResponseModel] :
          cs \in {None} \cup {Some(l) : l \in ChoiceLists}, m \in ResponseMeta}

----------------------------------------------------------------------------
(* OpenRouterService.callOpenRouterAPI and analyzeImage *)

AbortError == Err("AbortError", {"The user aborted a request"}, None)

\* callOpenRouterAPI, catch (error): clearTimeout, then the AbortError translation
callOpenRouterAPICatch(error) ==
  IF error.name = "AbortError"
  THEN Err("Error", {"Request timeout after", "ms"}, None)
  ELSE error

\* callOpenRouterAPI: response.json() and the test of data.choices
callOpenRouterAPIParse(body) ==
  CASE body.kind = "notJSON" ->
         Threw(callOpenRouterAPICatch(Err("FetchError", {"invalid json response body"}, None)))
    [] body.kind = "null" ->
         Threw(callOpenRouterAPICatch(Err("TypeError", {"Cannot read properties of null"}, None)))
    [] OTHER ->
         IF body.choices = None \/ Len(body.choices[1]) = 0
         THEN Threw(callOpenRouterAPICatch(
                      Err("Error", {"No choices returned from OpenRouter API"}, None)))
         ELSE Returned(body)

\* response.choices[0]?.message?.content
FirstContent(body) ==
  LET first == body.choices[1][1]
  IN IF first.message = None THEN None ELSE first.message[1].content

\* analyzeImage, catch (error)
analyzeImageCatch(error) ==
  IF error.name = "ImageAnalysisError" THEN error
  ELSE ImageAnalysisError({"OpenRouter API call failed"} \cup error.msg, Some(error))

selectedModelAlwaysDefault(model) == defaultModel

\* analyzeImage: model || this.config.openRouter.defaultModel
selectedModel(model) == IF TruthyStr(model) THEN model[1] ELSE defaultModel

\* analyzeImage: prompt || '...'
analysisPrompt(prompt) ==
  IF TruthyStr(prompt) THEN prompt[1]
  ELSE "Analyze this image and describe what you see in detail."

\* callOpenRouterAPI: the request body
RequestBody(base64Image, prompt, model) ==
  [model |-> model, text |-> prompt, image_url |-> base64Image, max_tokens |-> 1000]

\* crypto.randomUUID(): a value no response id equals
randomUUID == "00000000-0000-4000-8000-000000000000"

ImageAnalysisEntityCreateFreshId(imageSource, model, analysis, metadata, usage, id) ==
  [id |-> randomUUID, imageSource |-> imageSource,
   model |-> model, analysis |-> analysis, metadata |-> metadata, usage |-> usage]

\* ImageAnalysisEntity.create (timestamp left out)
ImageAnalysisEntityCreate(imageSource, model, analysis, metadata, usage, id) ==
  [id |-> IF TruthyStr(id) THEN id[1] ELSE randomUUID, imageSource |-> imageSource,
   model |-> model, analysis |-> analysis, metadata |-> metadata, usage |-> usage]

analyzeImageMapUndefinedOnly(imageSource, model, response) ==
  IF response.st = "threw" THEN Threw(analyzeImageCatch(response.err))
  ELSE LET analysis == FirstContent(response.val)
       IN IF analysis = None
          THEN Threw(analyzeImageCatch(
                       ImageAnalysisError({"No analysis content received from API"}, None)))
          ELSE Returned(ImageAnalysisEntityCreate(imageSource, model, analysis[1], None,
                                                  response.val.usage, response.val.id))

analyzeImageMapNoContentCheck(imageSource, model, response) ==
  IF response.st = "threw" THEN Threw(analyzeImageCatch(response.err))
  ELSE LET analysis == FirstContent(response.val)
       IN Returned(ImageAnalysisEntityCreate(imageSource, model,
                     IF analysis = None THEN "" ELSE analysis[1], None,
                     response.val.usage, response.val.id))

\* analyzeImage: from the settled callOpenRouterAPI to analyzeImage's own outcome;
\* model is the selected model
analyzeImageMap(imageSource, model, response) ==
  IF response.st = "threw" THEN Threw(analyzeImageCatch(response.err))
  ELSE LET analysis == FirstContent(response.val)
       IN IF analysis = None \/ analysis[1] = ""
          THEN Threw(analyzeImageCatch(
                       ImageAnalysisError({"No analysis content received from API"}, None)))
          ELSE Returned(ImageAnalysisEntityCreate(imageSource, model, analysis[1], None,
                                                  response.val.usage, response.val.id))

\* analyzeImage: await this.prepareImageForAPI(imageSource)
PrepareImage ==
  /\ pc = "analyzeImage"
  /\ payload' = prepareImageForAPI(loadOut.val)
  /\ IF payload'.st = "threw"
     THEN analyzeOut' = Threw(analyzeImageCatch(payload'.err)) /\ pc' = "analyzeSettled"
     ELSE pc' = "callApi" /\ UNCHANGED analyzeOut
  /\ UNCHANGED <<callVars, loaderVars, revalid, sent, timer, apiOk, apiBody, execOut, replyVars>>

\* callOpenRouterAPI: setTimeout(() => controller.abort(), timeout); fetch(...)
CallApi ==
  /\ pc = "callApi"
  /\ sent' = Append(sent, RequestBody(payload.val, analysisPrompt(args.prompt),
                                      selectedModel(args.model)))
  /\ timer' = "armed"
  /\ pc' = "awaitResponse"
  /\ UNCHANGED <<callVars, loaderVars, revalid, payload, apiOk, apiBody, analyzeOut, execOut, replyVars>>

\* the timer callback: controller.abort()
TimerFires ==
  /\ timer = "armed"
  /\ timer' = "fired"
  /\ UNCHANGED <<pc, callVars, loaderVars, revalid, payload, sent, apiOk, apiBody, analyzeOut,
                 execOut, replyVars>>

\* fetch rejects with AbortError once the signal is aborted
FetchAborted ==
  /\ pc = "awaitResponse"
  /\ timer = "fired"
  /\ analyzeOut' = analyzeImageMap(loadOut.val, selectedModel(args.model),
                                   Threw(callOpenRouterAPICatch(AbortError)))
  /\ pc' = "analyzeSettled"
  /\ UNCHANGED <<callVars, loaderVars, revalid, payload, sent, timer, apiOk, apiBody, execOut, replyVars>>

FetchFailsRetry ==
  /\ pc = "awaitResponse"
  /\ timer = "armed"
  /\ Len(sent) < 2
  /\ timer' = "cleared"
  /\ pc' = "callApi"
  /\ UNCHANGED <<callVars, loaderVars, revalid, payload, sent, apiOk, apiBody, analyzeOut,
                 execOut, replyVars>>

FetchFailsNoClear ==
  /\ pc = "awaitResponse"
  /\ timer = "armed"
  /\ analyzeOut' = analyzeImageMap(loadOut.val, selectedModel(args.model),
                                   Threw(callOpenRouterAPICatch(FetchError(source))))
  /\ pc' = "analyzeSettled"
  /\ UNCHANGED <<callVars, loaderVars, revalid, payload, sent, timer, apiOk, apiBody,
                 execOut, replyVars>>

\* fetch rejects on its own (connection refused, reset, DNS)
FetchFails ==
  /\ pc = "awaitResponse"
  /\ timer = "armed"
  /\ timer' = "cleared"
  /\ analyzeOut' = analyzeImageMap(loadOut.val, selectedModel(args.model),
                                   Threw(callOpenRouterAPICatch(FetchError(source))))
  /\ pc' = "analyzeSettled"
  /\ UNCHANGED <<callVars, loaderVars, revalid, payload, sent, apiOk, apiBody, execOut, replyVars>>

\* fetch resolves with the response head; clearTimeout(timeoutId)
ResponseArrives ==
  /\ pc = "awaitResponse"
  /\ timer = "armed"
  /\ \E ok \in BOOLEAN :
       /\ apiOk' = Some(ok)
       /\ pc' = IF ok THEN "readJson" ELSE "readErrorText"
  /\ timer' = "cleared"
  /\ UNCHANGED <<callVars, loaderVars, revalid, payload, sent, apiBody, analyzeOut, execOut, replyVars>>

\* !response.ok: await response.text(), then throw
ErrorTextRead ==
  /\ pc = "readErrorText"
  /\ \E e \in {Err("Error", {"OpenRouter API error"}, None), FetchError(source)} :
       analyzeOut' = analyzeImageMap(loadOut.val, selectedModel(args.model),
                                     Threw(callOpenRouterAPICatch(e)))
  /\ pc' = "analyzeSettled"
  /\ UNCHANGED <<callVars, loaderVars, revalid, payload, sent, timer, apiOk, apiBody, execOut, replyVars>>

\* await response.json() delivers a body, which is parsed, checked and mapped
JsonRead ==
  /\ pc = "readJson"
  /\ \E body \in Bodies :
       /\ apiBody' = Some(body)
       /\ analyzeOut' = analyzeImageMap(loadOut.val, selectedModel(args.model),
                                        callOpenRouterAPIParse(body))
  /\ pc' = "analyzeSettled"
  /\ UNCHANGED <<callVars, loaderVars, revalid, payload, sent, timer, apiOk, execOut, replyVars>>

\* await response.json() fails because the connection breaks while the body streams
JsonReadFails ==
  /\ pc = "readJson"
  /\ analyzeOut' = analyzeImageMap(loadOut.val, selectedModel(args.model),
                                   Threw(callOpenRouterAPICatch(FetchError(source))))
  /\ pc' = "analyzeSettled"
  /\ UNCHANGED <<callVars, loaderVars, revalid, payload, sent, timer, apiOk, apiBody, execOut, replyVars>>

----------------------------------------------------------------------------
(* The program: execute wired to ImageProcessor and OpenRouterService *)

Next ==
  \/ CallTool
  \/ Execute
  \/ LoadImage
  \/ FsAccess
  \/ ReadFile
  \/ FileValidate
  \/ FileExtract
  \/ FetchImage
  \/ ReadImageBody
  \/ UrlValidate
  \/ UrlExtract
  \/ ExecuteCheckData
  \/ ExecuteValidate
  \/ ExecuteCheckValid
  \/ PrepareImage
  \/ CallApi
  \/ TimerFires
  \/ FetchAborted
  \/ FetchFails
  \/ ResponseArrives
  \/ ErrorTextRead
  \/ JsonRead
  \/ JsonReadFails
  \/ ExecuteReturn

Spec == Init /\ [][Next]_vars

----------------------------------------------------------------------------
(* execute against its declared collaborators: AnalyzeImageUseCase is built *)
(* from an IImageProcessor and an IImageAnalysisService, whose methods may  *)
(* return any value of their type or throw any error.                       *)

ErrorNames == DomainErrorNames \cup {"UnsupportedModelError", "Error", "TypeError"}

AnyErrors ==
  {Err(n, m, c) : n \in ErrorNames, m \in {{}, {"ENOENT"}},
                  c \in {None, Some(Err("Error", {}, None))}}

SampleImage ==
  [len |-> 1, decodable |-> TRUE, format |-> Some("png"), width |-> Some(1),
   height |-> Some(1), pixels |-> TRUE, hasAlpha |-> Some(FALSE),
   space |-> Some("srgb"), density |-> Some(72)]

AnyImageSources ==
  [type : {"file", "url"}, data : {None, Some(SampleImage), Some(Undecodable(0))},
   metadata : {None}]

\* IImageProcessor.loadImage
AnyLoadImage ==
  /\ pc = "loadImage"
  /\ loadOut' \in {Returned(s) : s \in AnyImageSources} \cup {Threw(e) : e \in AnyErrors}
  /\ pc' = "loadSettled"
  /\ UNCHANGED <<callVars, loads, fileIO, imgFetch, data, validRes, revalid, remoteVars, execOut, replyVars>>

\* IImageProcessor.validateImage
AnyValidateImage ==
  /\ pc = "validateImage"
  /\ revalid' \in {Returned(b) : b \in BOOLEAN} \cup {Threw(e) : e \in AnyErrors}
  /\ pc' = "validateSettled"
  /\ UNCHANGED <<callVars, loaderVars, remoteVars, execOut, replyVars>>

\* IImageAnalysisService.analyzeImage
AnyAnalyzeImage ==
  /\ pc = "analyzeImage"
  /\ analyzeOut' \in {Returned(ImageAnalysisEntityCreate(loadOut.val, defaultModel, "text",
                                                         None, None, None))}
                     \cup {Threw(e) : e \in AnyErrors}
  /\ pc' = "analyzeSettled"
  /\ UNCHANGED <<callVars, loaderVars, revalid, payload, sent, timer, apiOk, apiBody, execOut, replyVars>>

UseCaseNext ==
  \/ CallTool
  \/ Execute
  \/ AnyLoadImage
  \/ ExecuteCheckData
  \/ AnyValidateImage
  \/ ExecuteCheckValid
  \/ AnyAnalyzeImage
  \/ ExecuteReturn

SpecUseCase == Init /\ [][UseCaseNext]_vars

----------------------------------------------------------------------------
(* Several analyze_image requests in flight at once.  The server, controller, *)
(* use case, image processor and remote client are single instances whose     *)
(* fields are a read-only configuration and a logger; everything a request    *)
(* computes lives in locals of its own async calls.  Each request is a record *)
(* of those locals and moves from await to await; the event loop interleaves  *)
(* the requests at the awaits.                                                *)

NumRequests == 2

\* no request is moving through the single-request variables
PipelineIdle ==
  /\ pc = "idle"
  /\ source = [cls |-> "path", enoent |-> FALSE]
  /\ args = [model |-> None, prompt |-> None]
  /\ call = [name |-> "list_models", kind |-> "undefined", src |-> NoSource]
  /\ fileIO = "none"
  /\ imgFetch = "none"
  /\ data = None
  /\ validRes = Pending
  /\ loadOut = Pending
  /\ loads = <<>>
  /\ revalid = Pending
  /\ payload = Pending
  /\ sent = <<>>
  /\ timer = "unset"
  /\ apiOk = None
  /\ apiBody = None
  /\ analyzeOut = Pending
  /\ execOut = Pending
  /\ ctrlOut = Pending
  /\ toolOut = Pending

ConcSources == {[cls |-> "path", enoent |-> FALSE], [cls |-> "https", enoent |-> FALSE]}

ConcArgs == {[model |-> None, prompt |-> None],
             [model |-> Some("openai/gpt-4o"), prompt |-> None]}

\* bytes a locator can lead to: acceptable, undecodable, too large
ConcImages == {SampleImage, Undecodable(1), [SampleImage EXCEPT !.len = maxSizeBytes + 1]}

\* the bodies the remote endpoint can answer with
ConcBodies ==
  {[kind |-> "object", choices |-> Some(<<[message |-> Some([content |-> Some(c)])]>>),
    id |-> Some("gen-1"), usage |-> None, model |-> ResponseModel] : c \in {"", "text"}}

\* what the remote call can meet: the timeout, a status outside 2xx, or a body
ConcAnswers ==
  {[kind |-> k, choices |-> None, id |-> None, usage |-> None, model |-> None] :
     k \in {"abort", "notOk"}}
  \cup ConcBodies

NewRequest(src, a) ==
  [source |-> src, args |-> a, pc |-> "start", io |-> "none", data |-> None,
   valid |-> Pending, loadOut |-> Pending, payload |-> Pending, api |-> None,
   out |-> Pending]

ConcInit ==
  /\ PipelineIdle
  /\ tool = ToolIdle
  /\ proc = <<>>
  /\ cfg = <<>>
  /\ reqs \in [1..NumRequests -> {NewRequest(s, a) : s \in ConcSources, a \in ConcArgs}]

otherVars == <<pc, source, args, call, loaderVars, revalid, remoteVars, execOut, replyVars,
               tool, proc, cfg>>

SharedData(rs, i) == IF rs[1].data # None THEN rs[1].data[1] ELSE rs[i].data[1]

\* loadFromFile / loadFromUrl: const data, a local of the call that read it
OwnData(rs, i) == rs[i].data[1]

\* an error thrown inside the loader of request r reaches execute through both catches
ConcLoadThrows(r, error) ==
  Threw(loadImageCatch(IF isUrl(r.source) THEN loadFromUrlCatch(error, r.source)
                       ELSE loadFromFileCatch(error, r.source), r.source))

\* execute's catch, for a request whose loader or analysis threw
ConcFail(r, error) == [r EXCEPT !.out = Threw(executeCatch(error)), !.pc = "done"]

\* await fs.access(filePath) or await fetch(url)
ConcAccess(i) ==
  /\ reqs[i].pc = "start"
  /\ \E r \in IF isUrl(reqs[i].source) THEN {"ok", "notOk"} ELSE {"ok", "ENOENT"} :
       LET q == reqs[i]
           e == IF r = "notOk" THEN HttpStatusError ELSE FsError(r, q.source)
       IN reqs' = [reqs EXCEPT ![i] =
                     IF r = "ok" THEN [q EXCEPT !.io = r, !.pc = "read"]
                     ELSE [q EXCEPT !.io = r, !.loadOut = ConcLoadThrows(q, e),
                                    !.pc = "loadSettled"]]
  /\ UNCHANGED otherVars

\* readFileSync(filePath) or await response.arrayBuffer()
ConcRead(i) ==
  /\ reqs[i].pc = "read"
  /\ \E buf \in ConcImages :
       reqs' = [reqs EXCEPT ![i] = [@ EXCEPT !.data = Some(buf), !.pc = "validate"]]
  /\ UNCHANGED otherVars

\* if (!await this.validateImage(data)) throw new InvalidImageError
ConcValidate(i) ==
  /\ reqs[i].pc = "validate"
  /\ LET v == validateImage(OwnData(reqs, i))
         r == reqs[i]
         text == IF isUrl(r.source) THEN "Invalid image from URL" ELSE "Invalid image file"
     IN reqs' = [reqs EXCEPT ![i] =
                   IF v.st = "threw"
                   THEN [r EXCEPT !.valid = v, !.loadOut = ConcLoadThrows(r, v.err),
                                  !.pc = "loadSettled"]
                   ELSE IF ~v.val
                   THEN [r EXCEPT !.valid = v,
                                  !.loadOut = ConcLoadThrows(r, InvalidImageError(
                                                {text} \cup PathText(r.source))),
                                  !.pc = "loadSettled"]
                   ELSE [r EXCEPT !.valid = v, !.pc = "extract"]]
  /\ UNCHANGED otherVars

\* const metadata = await this.extractMetadata(data); return {type, path, data, metadata}
ConcExtract(i) ==
  /\ reqs[i].pc = "extract"
  /\ LET r == reqs[i]
         metadata == extractMetadata(OwnData(reqs, i))
     IN reqs' = [reqs EXCEPT ![i] =
                   [r EXCEPT !.loadOut =
                      IF metadata.st = "threw" THEN ConcLoadThrows(r, metadata.err)
                      ELSE Returned(ImageSource(IF isUrl(r.source) THEN "url" ELSE "file",
                                                OwnData(reqs, i), metadata.val)),
                    !.pc = "loadSettled"]]
  /\ UNCHANGED otherVars

\* execute: the check of imageSource.data and await validateImage(imageSource.data)
ConcRecheck(i) ==
  /\ reqs[i].pc = "loadSettled"
  /\ LET r == reqs[i]
     IN reqs' = [reqs EXCEPT ![i] =
          IF r.loadOut.st = "threw" THEN ConcFail(r, r.loadOut.err)
          ELSE IF r.loadOut.val.data = None
          THEN ConcFail(r, ImageProcessingError({"Failed to load image data"}, None))
          ELSE LET again == validateImage(r.loadOut.val.data[1])
               IN IF again.st = "threw" THEN ConcFail(r, again.err)
                  ELSE IF ~again.val
                  THEN ConcFail(r, ImageProcessingError({"Invalid image format or size"},
                                                        None))
                  ELSE [r EXCEPT !.pc = "analyze"]]
  /\ UNCHANGED otherVars

\* analyzeImage: await prepareImageForAPI(imageSource), then fetch(...) is issued
ConcSend(i) ==
  /\ reqs[i].pc = "analyze"
  /\ LET r == reqs[i]
         p == prepareImageForAPI(r.loadOut.val)
     IN reqs' = [reqs EXCEPT ![i] =
                   IF p.st = "threw"
                   THEN ConcFail([r EXCEPT !.payload = p], analyzeImageCatch(p.err))
                   ELSE [r EXCEPT !.payload = p, !.pc = "await"]]
  /\ UNCHANGED otherVars

\* callOpenRouterAPI's outcome for an answer of the remote endpoint
ConcRemote(answer) ==
  CASE answer.kind = "abort" -> Threw(callOpenRouterAPICatch(AbortError))
    [] answer.kind = "notOk" ->
         Threw(callOpenRouterAPICatch(Err("Error", {"OpenRouter API error"}, None)))
    [] OTHER -> callOpenRouterAPIParse(answer)

\* the remote call of request i settles; analyzeImage and execute return or throw
ConcRespond(i) ==
  /\ reqs[i].pc = "await"
  /\ \E answer \in ConcAnswers :
       LET r == reqs[i]
           an == analyzeImageMap(r.loadOut.val, selectedModel(r.args.model),
                                 ConcRemote(answer))
       IN reqs' = [reqs EXCEPT ![i] =
                     IF an.st = "threw" THEN ConcFail([r EXCEPT !.api = Some(answer)], an.err)
                     ELSE [r EXCEPT !.api = Some(answer), !.out = an, !.pc = "done"]]
  /\ UNCHANGED otherVars

ConcNext ==
  \E i \in 1..NumRequests :
    \/ ConcAccess(i)
    \/ ConcRead(i)
    \/ ConcValidate(i)
    \/ ConcExtract(i)
    \/ ConcRecheck(i)
    \/ ConcSend(i)
    \/ ConcRespond(i)

SpecConcurrent == ConcInit /\ [][ConcNext]_vars

----------------------------------------------------------------------------
(* main.ts: Application.start, the shutdown handlers and Application.stop.   *)
(* proc.phase follows start(); proc.handlers holds the invocations of the     *)
(* shutdown handlers, in the order of their events; proc.exit is the call of  *)
(* process.exit that ended the process, with the handler that made it (0 for  *)
(* the exits in initialize and start, which no shutdown handler makes).       *)

MaxEvents == 2

Signals == {"SIGINT", "SIGTERM", "SIGQUIT"}
Faults == {"uncaughtException", "unhandledRejection"}

ShutdownInit ==
  /\ PipelineIdle
  /\ tool = ToolIdle
  /\ reqs = <<>>
  /\ cfg = <<>>
  /\ proc = [phase |-> "initializing", closeCalls |-> 0, handlers |-> <<>>, exit |-> None]

shutdownOther == <<pc, source, args, call, loaderVars, revalid, remoteVars, execOut, replyVars,
                   tool, reqs, cfg>>

Running == proc.exit = None

\* Application.initialize: the container resolves the server, or process.exit(1)
Initialize ==
  /\ Running
  /\ proc.phase = "initializing"
  /\ \/ proc' = [proc EXCEPT !.phase = "initialized"]
     \/ proc' = [proc EXCEPT !.exit = Some([code |-> 1, by |-> 0])]
  /\ UNCHANGED shutdownOther

\* Application.start: this.setupGracefulShutdown(), then await this.mcpServer.start()
SetupGracefulShutdown ==
  /\ Running
  /\ proc.phase = "initialized"
  /\ proc' = [proc EXCEPT !.phase = "starting"]
  /\ UNCHANGED shutdownOther

\* Application.start: mcpServer.start() settles; on a failure, process.exit(1)
StartSettles ==
  /\ Running
  /\ proc.phase = "starting"
  /\ \/ proc' = [proc EXCEPT !.phase = "serving"]
     \/ proc' = [proc EXCEPT !.exit = Some([code |-> 1, by |-> 0])]
  /\ UNCHANGED shutdownOther

applicationStopNoCatch(closed) == closed

\* Application.stop: how it settles given how mcpServer.stop() settled; the catch
\* logs the error, so stop() itself resolves in both cases
applicationStop(closed) == "resolved"

\* what a shutdown handler does once this.stop() has settled: a signal handler
\* awaits stop() and then calls process.exit(0); a fault handler calls
\* process.exit(1) in stop().finally
handlerExit(event, stopped) ==
  IF event \in Signals
  THEN IF stopped = "resolved" THEN Some(0) ELSE None
  ELSE Some(1)

\* a signal arrives or a fault is reported, and its handler runs up to
\* await this.server.close() inside McpServer.stop
ShutdownEvent ==
  /\ Running
  /\ proc.phase \in {"starting", "serving"}
  /\ Len(proc.handlers) < MaxEvents
  /\ \E e \in Signals \cup Faults :
       proc' = [proc EXCEPT
                  !.handlers = Append(@, [event |-> e, stage |-> "closing",
                                          closed |-> "pending", stopped |-> "pending"]),
                  !.closeCalls = @ + 1]
  /\ UNCHANGED shutdownOther

\* server.close() of handler h settles, and with it McpServer.stop and Application.stop
CloseSettles(h) ==
  /\ Running
  /\ proc.handlers[h].stage = "closing"
  /\ \E closed \in {"resolved", "rejected"} :
       proc' = [proc EXCEPT !.handlers[h] =
                  [@ EXCEPT !.closed = closed, !.stopped = applicationStop(closed),
                            !.stage = "stopped"]]
  /\ UNCHANGED shutdownOther

\* the continuation of handler h after stop(): process.exit, unless the handler's
\* own promise rejected
HandlerContinues(h) ==
  /\ Running
  /\ proc.handlers[h].stage = "stopped"
  /\ LET code == handlerExit(proc.handlers[h].event, proc.handlers[h].stopped)
     IN IF code = None
        THEN proc' = [proc EXCEPT !.handlers[h].stage = "rejected"]
        ELSE proc' = [proc EXCEPT !.handlers[h].stage = "exited",
                                  !.exit = Some([code |-> code[1], by |-> h])]
  /\ UNCHANGED shutdownOther

ShutdownNext ==
  \/ Initialize
  \/ SetupGracefulShutdown
  \/ StartSettles
  \/ ShutdownEvent
  \/ \E h \in 1..MaxEvents : h <= Len(proc.handlers) /\ CloseSettles(h)
  \/ \E h \in 1..MaxEvents : h <= Len(proc.handlers) /\ HandlerContinues(h)

\* the event loop runs the continuation of every promise that has settled
ShutdownFairness ==
  \A h \in 1..MaxEvents : WF_vars(h <= Len(proc.handlers) /\ HandlerContinues(h))

SpecShutdown == ShutdownInit /\ [][ShutdownNext]_vars /\ ShutdownFairness

----------------------------------------------------------------------------
(* ConfigManager: the configuration is loaded from the environment when the   *)
(* singleton is constructed, and changed by updateConfig.  Of AppConfig the    *)
(* three fields that validateConfig reads are kept, each in its section.  A    *)
(* number is <<n>>, and <<>> stands for NaN.                                   *)

NaN == <<>>

\* parseInt(text, 10) on the sample texts
ParseInt(text) ==
  CASE text = "10485760" -> <<maxSizeBytes>>
    [] text = "2048" -> <<2048>>
    [] text = "0" -> <<0>>
    [] text = "-5" -> <<-5>>
    [] OTHER -> NaN

\* the environment the process can be started in: each variable unset or set
Environments ==
  [OPENROUTER_API_KEY : {None, Some(""), Some("sk-or-1")},
   MAX_IMAGE_SIZE : {None, Some("2048"), Some("0"), Some("-5"), Some("ten megabytes")},
   LOG_LEVEL : {None, Some("debug"), Some("verbose")}]

\* defaultConfig, read from the environment when the module is loaded
loadConfig(env) ==
  [openRouter |-> [apiKey |-> IF TruthyStr(env.OPENROUTER_API_KEY)
                              THEN env.OPENROUTER_API_KEY[1] ELSE ""],
   image |-> [maxSizeBytes |-> ParseInt(IF TruthyStr(env.MAX_IMAGE_SIZE)
                                        THEN env.MAX_IMAGE_SIZE[1] ELSE "10485760")],
   logging |-> [level |-> IF TruthyStr(env.LOG_LEVEL) THEN env.LOG_LEVEL[1] ELSE "info"]]

LogLevels == {"debug", "info", "warn", "error"}

\* ConfigManager.validateConfig; NaN <= 0 is false
validateConfig(config) ==
  IF config.openRouter.apiKey = ""
  THEN Threw(Err("Error", {"OPENROUTER_API_KEY environment variable is required"}, None))
  ELSE IF config.image.maxSizeBytes # NaN /\ config.image.maxSizeBytes[1] <= 0
  THEN Threw(Err("Error", {"MAX_IMAGE_SIZE must be a positive number"}, None))
  ELSE IF config.logging.level \notin LogLevels
  THEN Threw(Err("Error", {"LOG_LEVEL must be one of: debug, info, warn, error"}, None))
  ELSE Returned(TRUE)

\* the updates a caller can pass: each section missing or given
Updates ==
  [openRouter : {None, Some([apiKey |-> ""]), Some([apiKey |-> "sk-or-2"])},
   image : {None, Some([maxSizeBytes |-> <<0>>]), Some([maxSizeBytes |-> <<4096>>])},
   logging : {None, Some([level |-> "verbose"]), Some([level |-> "warn"])}]

\* { ...this.config, ...updates }: a section that is given replaces the held one
Merged(config, updates) ==
  [openRouter |-> IF updates.openRouter # None THEN updates.openRouter[1]
                  ELSE config.openRouter,
   image |-> IF updates.image # None THEN updates.image[1] ELSE config.image,
   logging |-> IF updates.logging # None THEN updates.logging[1] ELSE config.logging]

ConfigInit ==
  /\ PipelineIdle
  /\ tool = ToolIdle
  /\ reqs = <<>>
  /\ proc = <<>>
  /\ \E env \in Environments :
       cfg = [phase |-> "unloaded", env |-> env, config |-> loadConfig(env),
              before |-> loadConfig(env), last |-> Pending]

configOther == <<pc, source, args, call, loaderVars, revalid, remoteVars, execOut, replyVars,
                 tool, reqs, proc>>

\* ConfigManager.getInstance, first call: the constructor loads and validates; when
\* validateConfig throws, no instance exists
GetInstance ==
  /\ cfg.phase = "unloaded"
  /\ LET checked == validateConfig(cfg.config)
     IN cfg' = [cfg EXCEPT !.phase = IF checked.st = "threw" THEN "failed" ELSE "constructed",
                           !.last = checked]
  /\ UNCHANGED configOther

\* ConfigManager.updateConfig: the merged configuration is assigned, then validated
UpdateConfig ==
  /\ cfg.phase = "constructed"
  /\ \E updates \in Updates :
       LET merged == Merged(cfg.config, updates)
       IN cfg' = [cfg EXCEPT !.before = cfg.config, !.config = merged,
                             !.last = validateConfig(merged)]
  /\ UNCHANGED configOther

\* ConfigManager.getConfig: a copy of the held configuration
getConfig == cfg.config

ConfigNext ==
  \/ GetInstance
  \/ UpdateConfig

SpecConfig == ConfigInit /\ [][ConfigNext]_vars

----------------------------------------------------------------------------
(* ImageProcessor.optimizeImage.  No caller inside the program uses it; it   *)
(* and extractMetadata are public methods of IImageProcessor and are called *)
(* here directly, on any buffer.                                            *)

\* round(side * num / den), at least 1: the side sharp derives when it scales
Scaled(side, num, den) == Max(1, (2 * side * num + den) \div (2 * den))

\* sharp's resize(mw, mh, {fit: 'inside', withoutEnlargement}) on a w x h image:
\* the largest size inside the box that keeps the aspect ratio; a missing bound
\* does not constrain; withoutEnlargement keeps an image that already fits
SharpResizeInside(w, h, mw, mh, withoutEnlargement) ==
  LET byWidth == mh = None \/ (mw # None /\ mw[1] * h <= mh[1] * w)
  IN IF byWidth
     THEN IF withoutEnlargement /\ mw[1] >= w THEN <<w, h>>
          ELSE <<mw[1], Scaled(h, mw[1], w)>>
     ELSE IF withoutEnlargement /\ mh[1] >= h THEN <<w, h>>
          ELSE <<Scaled(w, mh[1], h), mh[1]>>

\* sharp rejects a bound that is given but is not a positive integer
SharpParamError == Err("Error", {"Expected positive integer"}, None)

\* optimizeImage, with the withoutEnlargement option it passes as a parameter
optimizeImageWith(img, maxWidth, maxHeight, withoutEnlargement) ==
  LET resize == TruthyNum(maxWidth) \/ TruthyNum(maxHeight)
      metadata == SharpMetadata(img)
      failed(e) == Threw(ImageProcessingError({"Failed to optimize image"}, Some(e)))
  IN IF resize /\ (maxWidth = Some(0) \/ maxHeight = Some(0))
     THEN failed(SharpParamError)
     ELSE IF metadata.st = "threw" THEN failed(metadata.err)
     ELSE IF ~img.pixels THEN failed(SharpError)
     ELSE
       LET dims == IF resize /\ img.width # None /\ img.height # None
                   THEN SharpResizeInside(img.width[1], img.height[1],
                                          maxWidth, maxHeight, withoutEnlargement)
                   ELSE <<>>
       IN Returned(
            [resize |-> IF resize
                        THEN Some([width |-> maxWidth, height |-> maxHeight,
                                   fit |-> "inside",
                                   withoutEnlargement |-> withoutEnlargement])
                        ELSE None,
             encoder |-> IF metadata.val.format \in {Some("jpeg"), Some("png"), Some("webp")}
                         THEN metadata.val.format ELSE None,
             buf |-> IF dims = <<>> THEN img
                     ELSE [img EXCEPT !.width = Some(dims[1]), !.height = Some(dims[2])]])

optimizeImageEnlarging(img, maxWidth, maxHeight) ==
  optimizeImageWith(img, maxWidth, maxHeight, FALSE)

\* ImageProcessor.optimizeImage
optimizeImage(img, maxWidth, maxHeight) ==
  optimizeImageWith(img, maxWidth, maxHeight, TRUE)

----------------------------------------------------------------------------
(* Direct calls of extractMetadata and optimizeImage *)

\* the bounds a caller can pass: none, zero, or a positive number
OptBounds == {None, Some(0), Some(1), Some(1024), Some(2000)}

\* buffers for extractMetadata: the decoder may leave any field out
ToolImages ==
  {Undecodable(0), Undecodable(1)}
  \cup [len : {1}, decodable : {TRUE}, format : {None, Some("png"), Some("tiff")},
        width : OptDims, height : OptDims, pixels : {TRUE},
        hasAlpha : {None, Some(FALSE), Some(TRUE)}, space : {None, Some("srgb")},
        density : {None, Some(72)}]

\* buffers for optimizeImage: decodable ones have both dimensions
OptimizeImages ==
  {Undecodable(1)}
  \cup [len : {1}, decodable : {TRUE},
        format : {Some("jpeg"), Some("png"), Some("webp"), Some("gif")},
        width : {Some(d) : d \in SampleDims \ {0}},
        height : {Some(d) : d \in SampleDims \ {0}}, pixels : BOOLEAN,
        hasAlpha : {Some(FALSE)}, space : {Some("srgb")}, density : {Some(72)}]

ToolCalls ==
  [op : {"extractMetadata"}, img : ToolImages, maxWidth : {None}, maxHeight : {None},
   out : {Pending}, again : {Pending}]
  \cup [op : {"optimizeImage"}, img : OptimizeImages, maxWidth : OptBounds,
         maxHeight : OptBounds, out : {Pending}, again : {Pending}]

pipelineVars == <<pc, source, args, call, loaderVars, revalid, remoteVars, execOut,
                  replyVars, reqs, proc, cfg>>

\* no request is in progress; one method of the image processor is about to be called
ToolsInit ==
  /\ pc = "idle"
  /\ source = [cls |-> "path", enoent |-> FALSE]
  /\ args = [model |-> None, prompt |-> None]
  /\ fileIO = "none"
  /\ imgFetch = "none"
  /\ data = None
  /\ validRes = Pending
  /\ loadOut = Pending
  /\ revalid = Pending
  /\ payload = Pending
  /\ sent = <<>>
  /\ timer = "unset"
  /\ apiOk = None
  /\ apiBody = None
  /\ analyzeOut = Pending
  /\ execOut = Pending
  /\ call = [name |-> "list_models", kind |-> "undefined", src |-> NoSource]
  /\ loads = <<>>
  /\ ctrlOut = Pending
  /\ toolOut = Pending
  /\ SideIdle
  /\ tool \in ToolCalls

\* await imageProcessor.extractMetadata(buffer)
ExtractMetadata ==
  /\ tool.op = "extractMetadata"
  /\ tool.out = Pending
  /\ tool' = [tool EXCEPT !.out = extractMetadata(tool.img)]
  /\ UNCHANGED pipelineVars

\* await imageProcessor.optimizeImage(buffer, maxWidth, maxHeight)
OptimizeImage ==
  /\ tool.op = "optimizeImage"
  /\ tool.out = Pending
  /\ tool' = [tool EXCEPT !.out = optimizeImage(tool.img, tool.maxWidth, tool.maxHeight)]
  /\ UNCHANGED pipelineVars

\* optimizeImage applied to its own output, with the same bounds
OptimizeImageAgain ==
  /\ tool.op = "optimizeImage"
  /\ tool.out.st = "returned"
  /\ tool.again = Pending
  /\ tool' = [tool EXCEPT !.again = optimizeImage(tool.out.val.buf, tool.maxWidth,
                                                    tool.maxHeight)]
  /\ UNCHANGED pipelineVars

ToolsNext ==
  \/ ExtractMetadata
  \/ OptimizeImage
  \/ OptimizeImageAgain

SpecTools == ToolsInit /\ [][ToolsNext]_vars

----------------------------------------------------------------------------
(* Claims *)

\* the value a collaborator threw into execute's try block, if any
Caught ==
  IF loadOut.st = "threw" THEN Some(loadOut.err)
  ELSE IF revalid.st = "threw" THEN Some(revalid.err)
  ELSE IF analyzeOut.st = "threw" THEN Some(analyzeOut.err)
  ELSE None

\* C1: a NotFound, Invalid, ProcessingFailure or AnalysisFailure raised by
\* loadImage or by analyzeImage reaches the caller of execute as the same failure.
C1_DomainFailuresPropagate ==
  pc = "done" =>
    /\ (loadOut.st = "threw" /\ loadOut.err.name \in DomainErrorNames)
         => execOut = Threw(loadOut.err)
    /\ (analyzeOut.st = "threw" /\ analyzeOut.err.name \in DomainErrorNames)
         => execOut = Threw(analyzeOut.err)

C3_MissingFileIsNotFound ==
  (loadOut.st # "pending" /\ fileIO = "ENOENT")
    => (loadOut.st = "threw" /\ loadOut.err.name = "ImageNotFoundError")

C3_Witness ==
  /\ pc = "loadSettled"
  /\ ~isUrl(source)
  /\ fileIO = "ENOENT"
  /\ data = None
  /\ loadOut.st = "threw"
  /\ loadOut.err.name = "ImageNotFoundError"

\* C4: loading an http/https URL whose GET returns a non-success status fails
\* with NotFound.
C4_BadStatusIsNotFound ==
  (loadOut.st # "pending" /\ imgFetch = "notOk")
    => (loadOut.st = "threw" /\ loadOut.err.name = "ImageNotFoundError")

\* C5: bytes that were read but that validateImage rejects make loadImage fail
\* with Invalid.
C5_RejectedBytesAreInvalid ==
  (loadOut.st # "pending" /\ validRes = Returned(FALSE))
    => (loadOut.st = "threw" /\ loadOut.err.name = "InvalidImageError")

\* C6: permission denied on a file, a malformed URL locator and a network failure
\* while fetching each make loadImage fail with ProcessingFailure.
C6_OtherIOErrorsAreProcessing ==
  (loadOut.st # "pending"
     /\ (fileIO = "EACCES" \/ source.cls = "malformed" \/ imgFetch = "netErr"))
    => (loadOut.st = "threw" /\ loadOut.err.name = "ImageProcessingError")

\* the bytes validateImage was given
Validated == data[1]

\* C7: validateImage never throws, and returns false whenever the decoder fails
\* (the empty buffer included).
C7_ValidateNeverThrows ==
  /\ validRes.st \in {"pending", "returned"}
  /\ revalid.st \in {"pending", "returned"}
  /\ (validRes.st = "returned" /\ ~Validated.decodable) => validRes.val = FALSE

C7_Witness ==
  /\ validRes = Returned(FALSE)
  /\ Validated.len = 0
  /\ ~Validated.decodable

\* what the claim says validateImage accepts
Acceptable(img) ==
  /\ img.decodable
  /\ img.format # None
  /\ img.format[1] \in {"jpeg", "png", "gif", "bmp", "webp"}
  /\ img.len <= maxSizeBytes
  /\ img.width # None
  /\ img.width[1] >= 1
  /\ img.height # None
  /\ img.height[1] >= 1

BadStatus == apiOk = Some(FALSE)
Unparseable == apiBody # None /\ apiBody[1].kind = "notJSON"
NoChoices ==
  /\ apiBody # None
  /\ apiBody[1].kind = "object"
  /\ (apiBody[1].choices = None \/ apiBody[1].choices[1] = <<>>)
NoContent ==
  /\ apiBody # None
  /\ apiBody[1].kind = "object"
  /\ apiBody[1].choices # None
  /\ apiBody[1].choices[1] # <<>>
  /\ LET first == Head(apiBody[1].choices[1])
     IN \/ first.message = None
        \/ first.message[1].content = None
        \/ first.message[1].content = Some("")

\* C9: a non-success status, an unparseable body, a response without choices and
\* a first choice without content each make analyzeImage fail with AnalysisFailure.
C9_RemoteFailuresAreAnalysisFailures ==
  (analyzeOut.st # "pending" /\ (BadStatus \/ Unparseable \/ NoChoices \/ NoContent))
    => (analyzeOut.st = "threw" /\ analyzeOut.err.name = "ImageAnalysisError")

C9_Witness ==
  /\ pc = "analyzeSettled"
  /\ NoContent
  /\ Len(apiBody[1].choices[1]) = 2
  /\ apiBody[1].choices[1][2].message = Some([content |-> Some("text")])
  /\ analyzeOut.st = "threw"
  /\ analyzeOut.err.name = "ImageAnalysisError"

\* C10: as long as the remote call has not completed (response received and body
\* read), the timeout is still pending or has fired, so that a stall at any point
\* ends in an abort.
C10_TimeoutCoversWholeCall ==
  pc \in {"awaitResponse", "readErrorText", "readJson"} => timer \in {"armed", "fired"}

\* C11 as stated: every analyzeImage invocation, successful or failed, issues
\* exactly one HTTP request to the remote endpoint.
C11_ExactlyOneRequest ==
  analyzeOut.st # "pending" => Len(sent) = 1

\* C11: every analyzeImage invocation issues at most one HTTP request to the remote
\* endpoint, and exactly one once the image was transcoded for submission, whether
\* the request then succeeds or fails; a failed request is never re-sent.
C11_AtMostOneRequest ==
  /\ Len(sent) <= 1
  /\ analyzeOut.st # "pending" => (Len(sent) = 1 <=> payload.st = "returned")

C11_Witness ==
  /\ pc = "analyzeSettled"
  /\ payload.st = "returned"
  /\ timer = "cleared"
  /\ apiOk = None
  /\ analyzeOut.st = "threw"
  /\ Len(sent) = 1

\* an optional string argument counts as given when it is a non-empty string
ModelGiven == args.model # None /\ args.model # Some("")
PromptGiven == args.prompt # None /\ args.prompt # Some("")

ResponseHasId == apiBody[1].id # None /\ apiBody[1].id # Some("")

\* C13: on a successful remote response the result's analysis is the first choice's
\* message content, its id is the response id when the response carries one and a
\* freshly generated id otherwise, its usage is the response's usage when present
\* and absent otherwise, and its imageSource is the source passed to analyzeImage.
C13_ResponseMapping ==
  analyzeOut.st = "returned" =>
    /\ Some(analyzeOut.val.analysis) = Head(apiBody[1].choices[1]).message[1].content
    /\ ResponseHasId => analyzeOut.val.id = apiBody[1].id[1]
    /\ ~ResponseHasId =>
         /\ analyzeOut.val.id = randomUUID
         /\ \A b \in Bodies : Some(analyzeOut.val.id) # b.id
    /\ analyzeOut.val.usage = apiBody[1].usage
    /\ analyzeOut.val.imageSource = loadOut.val

C13_Witness ==
  /\ pc = "analyzeSettled"
  /\ analyzeOut.st = "returned"
  /\ Len(apiBody[1].choices[1]) = 2
  /\ apiBody[1].choices[1][2].message = Some([content |-> Some("")])
  /\ apiBody[1].id = Some("gen-1")
  /\ analyzeOut.val.id = "gen-1"
  /\ analyzeOut.val.usage = Some(SampleUsage)
  /\ analyzeOut.val.analysis = "text"

\* C14: every result returned by analyzeImage or by execute has a non-empty
\* analysis text, whatever the remote endpoint answered.
C14_AnalysisNonEmpty ==
  /\ analyzeOut.st = "returned" => analyzeOut.val.analysis # ""
  /\ execOut.st = "returned" => execOut.val.analysis # ""

C14_Witness ==
  /\ pc = "done"
  /\ execOut.st = "returned"
  /\ execOut = analyzeOut
  /\ execOut.val.analysis = "text"
  /\ Len(apiBody[1].choices[1]) = 1

\* execute has called the remote client for this request
AnalyzeInvoked ==
  \/ pc = "analyzeImage"
  \/ payload.st # "pending"
  \/ sent # <<>>
  \/ analyzeOut.st # "pending"

\* C15: within execute the remote client is invoked only after loadImage returned
\* non-empty bytes that passed the format, size and dimension validation; when
\* loading failed, or validation rejected the bytes, it is never invoked.
C15_AnalyzeOnlyAfterValidLoad ==
  /\ AnalyzeInvoked =>
       /\ loadOut.st = "returned"
       /\ loadOut.val.data = data
       /\ data # None
       /\ data[1].len > 0
       /\ Acceptable(data[1])
       /\ validRes = Returned(TRUE)
       /\ revalid = Returned(TRUE)
  /\ (pc = "done" /\ (loadOut.st = "threw" \/ validRes = Returned(FALSE)))
       => (payload.st = "pending" /\ sent = <<>> /\ analyzeOut.st = "pending")

C15_Witness ==
  /\ pc = "awaitResponse"
  /\ Len(sent) = 1
  /\ loadOut.st = "returned"
  /\ data[1].len = maxSizeBytes
  /\ data[1].format = Some("webp")
  /\ revalid = Returned(TRUE)

\* |a - b|
Dist(a, b) == IF a > b THEN a - b ELSE b - a

\* width and height of the image handed to prepareImageForAPI
InWidth == data[1].width[1]
InHeight == data[1].height[1]

\* C16: submission transcoding requests a resize exactly when the longer side
\* exceeds 1024; the longer side (width when width > height, otherwise height) then
\* becomes exactly 1024 and the other side is scaled in proportion, within one
\* pixel; otherwise no resize is requested and width and height are preserved.
C16_ResizeToCap ==
  payload.st = "returned" =>
    /\ (payload.val.resize # None) <=> (InWidth > 1024 \/ InHeight > 1024)
    /\ (InWidth > 1024 /\ InWidth > InHeight) =>
         /\ payload.val.resize = Some("width")
         /\ payload.val.width = Some(1024)
         /\ Dist(payload.val.height[1] * InWidth, InHeight * 1024) <= InWidth
    /\ (InHeight > 1024 /\ InWidth <= InHeight) =>
         /\ payload.val.resize = Some("height")
         /\ payload.val.height = Some(1024)
         /\ Dist(payload.val.width[1] * InHeight, InWidth * 1024) <= InHeight
    /\ (InWidth <= 1024 /\ InHeight <= 1024) =>
         /\ payload.val.width = Some(InWidth)
         /\ payload.val.height = Some(InHeight)

C16_Witness ==
  /\ payload.st = "returned"
  /\ InWidth = 1024
  /\ InHeight = 1025
  /\ payload.val.resize = Some("height")
  /\ payload.val.width = Some(1023)
  /\ payload.val.height = Some(1024)

\* C17: the image payload sent to the remote endpoint is always the image re-encoded
\* as JPEG at quality 80 under the label data:image/jpeg;base64, resized or not and
\* whatever the input format; the original bytes never travel under that label.
C17_AlwaysJpeg80 ==
  /\ payload.st = "returned" =>
       /\ payload.val.label = "data:image/jpeg;base64"
       /\ payload.val.enc = Some("jpeg")
       /\ payload.val.quality = Some(80)
  /\ \A i \in 1..Len(sent) :
       /\ sent[i].image_url = payload.val
       /\ sent[i].image_url.enc = Some("jpeg")
       /\ sent[i].image_url.quality = Some(80)

C17_Witness ==
  /\ Len(sent) = 1
  /\ data[1].format = Some("png")
  /\ data[1].width = Some(1024)
  /\ data[1].height = Some(1)
  /\ sent[1].image_url.resize = None
  /\ sent[1].image_url.enc = Some("jpeg")
  /\ sent[1].image_url.quality = Some(80)

\* C18: when decoding fails while the image is transcoded for submission, the
\* failure analyzeImage reports, and execute passes on, is a ProcessingFailure.
C18_TranscodeFailureIsProcessing ==
  (payload.st = "threw" /\ analyzeOut.st # "pending")
    => (analyzeOut.st = "threw" /\ analyzeOut.err.name = "ImageProcessingError")

\* a bound is given when the argument is a positive number
BoundGiven(b) == b # None /\ b[1] > 0

\* the image optimizeImage was given already fits the given bounds
WithinBounds ==
  /\ BoundGiven(tool.maxWidth) => tool.img.width[1] <= tool.maxWidth[1]
  /\ BoundGiven(tool.maxHeight) => tool.img.height[1] <= tool.maxHeight[1]

\* C19: optimizeImage never enlarges: the output's width and height are at most the
\* input's, a resize is requested only when a bound is given and then always with
\* fit inside and without enlargement, an image already within the bounds keeps
\* its dimensions, and a second application leaves the dimensions of the first.
C19_OptimizeNeverEnlarges ==
  (tool.op = "optimizeImage" /\ tool.out.st = "returned") =>
    /\ tool.out.val.buf.width[1] <= tool.img.width[1]
    /\ tool.out.val.buf.height[1] <= tool.img.height[1]
    /\ tool.out.val.resize # None =>
         /\ BoundGiven(tool.maxWidth) \/ BoundGiven(tool.maxHeight)
         /\ tool.out.val.resize[1].fit = "inside"
         /\ tool.out.val.resize[1].withoutEnlargement
    /\ WithinBounds =>
         /\ tool.out.val.buf.width = tool.img.width
         /\ tool.out.val.buf.height = tool.img.height
    /\ tool.again.st # "pending" =>
         /\ tool.again.st = "returned"
         /\ tool.again.val.buf.width = tool.out.val.buf.width
         /\ tool.again.val.buf.height = tool.out.val.buf.height

C19_Witness ==
  /\ tool.op = "optimizeImage"
  /\ tool.img.width = Some(1025)
  /\ tool.img.height = Some(1024)
  /\ tool.maxWidth = Some(1024)
  /\ tool.maxHeight = Some(2000)
  /\ tool.out.st = "returned"
  /\ tool.out.val.buf.width = Some(1024)
  /\ tool.out.val.buf.height = Some(1023)
  /\ tool.again.st = "returned"
  /\ tool.again.val.buf.height = Some(1023)

\* C20: extractMetadata fails with ProcessingFailure when decoding fails, and
\* otherwise leaves unset every field the decoder does not surface (width, height,
\* format, alpha, colour space, density) instead of filling in a placeholder.
C20_MetadataNeverInvented ==
  (tool.op = "extractMetadata" /\ tool.out.st # "pending") =>
    IF ~tool.img.decodable
    THEN tool.out.st = "threw" /\ tool.out.err.name = "ImageProcessingError"
    ELSE /\ tool.out.st = "returned"
         /\ tool.img.width = None => tool.out.val.width = None
         /\ tool.img.height = None => tool.out.val.height = None
         /\ tool.img.format = None => tool.out.val.format = None
         /\ tool.img.hasAlpha = None => tool.out.val.hasAlpha = None
         /\ tool.img.space = None => tool.out.val.colorSpace = None
         /\ tool.img.density = None => tool.out.val.density = None

----------------------------------------------------------------------------
(* C21 *)

\* loadImage's outcome for a request that ran alone, from what the file system or
\* the image host answered to it
LoadAlone(r) ==
  IF r.io # "ok"
  THEN ConcLoadThrows(r, IF r.io = "notOk" THEN HttpStatusError ELSE FsError(r.io, r.source))
  ELSE LET buf == r.data[1]
           v == validateImage(buf)
           metadata == extractMetadata(buf)
           text == IF isUrl(r.source) THEN "Invalid image from URL" ELSE "Invalid image file"
       IN IF v.st = "threw" THEN ConcLoadThrows(r, v.err)
          ELSE IF ~v.val
          THEN ConcLoadThrows(r, InvalidImageError({text} \cup PathText(r.source)))
          ELSE IF metadata.st = "threw" THEN ConcLoadThrows(r, metadata.err)
          ELSE Returned(ImageSource(IF isUrl(r.source) THEN "url" ELSE "file", buf,
                                    metadata.val))

\* execute's outcome for a request that ran alone, from its own arguments and from
\* what the environment answered to it
ExecuteAlone(r) ==
  LET l == LoadAlone(r)
  IN IF l.st = "threw" THEN Threw(executeCatch(l.err))
     ELSE LET again == validateImage(l.val.data[1])
              p == prepareImageForAPI(l.val)
              an == IF r.api = None THEN Pending
                    ELSE analyzeImageMap(l.val, selectedModel(r.args.model),
                                         ConcRemote(r.api[1]))
          IN IF again.st = "threw" THEN Threw(executeCatch(again.err))
             ELSE IF ~again.val
             THEN Threw(executeCatch(ImageProcessingError(
                                       {"Invalid image format or size"}, None)))
             ELSE IF p.st = "threw" THEN Threw(executeCatch(analyzeImageCatch(p.err)))
             ELSE IF an.st = "threw" THEN Threw(executeCatch(an.err))
             ELSE an

\* C21: under every interleaving of the requests in flight, a request that has
\* finished has the outcome it would have had alone: the one determined by its own
\* source and arguments and by what the file system, the image host and the remote
\* endpoint answered to it
C21_RequestsIndependent ==
  \A i \in 1..NumRequests :
    reqs[i].pc = "done" => reqs[i].out = ExecuteAlone(reqs[i])

\* one request has returned an analysis while another, which has read other bytes,
\* is between its read and its validation
C21_Witness ==
  \E i, j \in 1..NumRequests :
    /\ i # j
    /\ reqs[i].pc = "done" /\ reqs[i].out.st = "returned"
    /\ reqs[j].pc = "validate" /\ reqs[j].data # reqs[i].data

----------------------------------------------------------------------------
(* C22 *)

\* the code under which the controller reported the request's failure
ReportedCode == ctrlOut.val.error[1].code

\* C22: ImageAnalysisController.analyzeImage never throws, and it reports a missing
\* source file as IMAGE_NOT_FOUND, bytes rejected by validation as INVALID_IMAGE, a
\* processing failure as IMAGE_PROCESSING_ERROR and a remote-analysis failure as
\* ANALYSIS_ERROR.
C22_FailureCodes ==
  pc = "done" =>
    /\ ctrlOut.st = "returned"
    /\ execOut.st = "threw" => ~ctrlOut.val.success
    /\ fileIO = "ENOENT" => ReportedCode = "IMAGE_NOT_FOUND"
    /\ validRes = Returned(FALSE) => ReportedCode = "INVALID_IMAGE"
    /\ (loadOut.st = "threw" /\ loadOut.err.name = "ImageProcessingError")
         => ReportedCode = "IMAGE_PROCESSING_ERROR"
    /\ analyzeOut.st = "threw" => ReportedCode = "ANALYSIS_ERROR"

----------------------------------------------------------------------------
(* C23 *)

\* how many times the loader performed operation op
Count(op) == Cardinality({k \in 1..Len(loads) : loads[k] = op})

\* a step of the request has failed
StepFailed ==
  \/ loadOut.st = "threw"
  \/ revalid.st = "threw" \/ revalid = Returned(FALSE)
  \/ payload.st = "threw"
  \/ analyzeOut.st = "threw"

\* C23: a request performs at most one source load (one file read or one GET, never
\* both) and at most one remote analysis call; after the first failure of a step no
\* later step is performed, and the request ends with exactly one reported failure.
C23_NoStepRepeated ==
  /\ Count("access") <= 1 /\ Count("readFile") <= 1 /\ Count("GET") <= 1
  /\ ~(Count("access") > 0 /\ Count("GET") > 0)
  /\ Len(sent) <= 1
  /\ loadOut.st = "threw" => revalid = Pending /\ payload = Pending /\ sent = <<>>
  /\ (revalid.st = "threw" \/ revalid = Returned(FALSE)) => payload = Pending /\ sent = <<>>
  /\ payload.st = "threw" => sent = <<>>
  /\ pc = "done" =>
       /\ StepFailed <=> execOut.st = "threw"
       /\ execOut.st = "threw" <=> (~ctrlOut.val.success /\ toolOut.val.isError)

\* a GET that failed ended the request: one load, no remote call, one failure reported
C23_Witness ==
  /\ pc = "done"
  /\ loads = <<"GET">>
  /\ imgFetch = "netErr"
  /\ sent = <<>>
  /\ execOut.st = "threw"
  /\ toolOut.val.isError

----------------------------------------------------------------------------
(* C24 *)

\* the locator is an absolute URL with scheme http or https
HttpLocator == source.cls \in {"http", "https"}

----------------------------------------------------------------------------
(* C25 *)

\* C25: an ImageSource returned by loadImage carries the bytes that were read, which
\* are non-empty and which validateImage accepted; its metadata is what
\* extractMetadata computes from those bytes, with a supported format, a size of at
\* most maxSizeBytes and width and height of at least 1; extractMetadata is never
\* reached with bytes that validateImage did not accept.
C25_ReturnedSourceIsValidated ==
  /\ pc \in {"fileExtract", "urlExtract"} => validRes = Returned(TRUE)
  /\ loadOut.st = "returned" =>
       LET src == loadOut.val
       IN /\ src.data # None /\ src.data = data
          /\ src.data[1].len >= 1
          /\ validRes = Returned(TRUE)
          /\ src.metadata # None
          /\ Returned(src.metadata[1]) = extractMetadata(src.data[1])
          /\ src.metadata[1].format[1] \in supportedFormats
          /\ src.metadata[1].size[1] <= maxSizeBytes
          /\ src.metadata[1].width[1] >= 1
          /\ src.metadata[1].height[1] >= 1

\* a fetched image of exactly the maximum size came back with its metadata
C25_Witness ==
  /\ loadOut.st = "returned"
  /\ loadOut.val.type = "url"
  /\ loadOut.val.metadata[1].size = Some(maxSizeBytes)
  /\ loadOut.val.metadata[1].width = Some(1025)

----------------------------------------------------------------------------
(* C26 *)

\* the arguments are an object that carries a non-empty string source
HasStringSource ==
  call.kind = "object" /\ call.src.type = "string" /\ call.src.truthy

\* the handler has answered the call
Answered == pc \in {"replied", "done"}

\* C26: the analyze_image handler never throws and answers every argument payload
\* with a content response; when the arguments are missing, not an object, or lack a
\* non-empty string source, the response is isError and neither the controller nor
\* the loader nor the remote client was invoked; of all tool calls only one with an
\* unknown tool name raises an error.
C26_HandlerNeverThrows ==
  /\ call.name = "analyze_image" =>
       /\ toolOut.st # "threw"
       /\ Answered => toolOut.st = "returned"
       /\ ~HasStringSource =>
            /\ Answered => toolOut.val.isError
            /\ ctrlOut = Pending /\ execOut = Pending
            /\ loads = <<>> /\ sent = <<>>
            /\ pc \in {"request", "replied"}
  /\ Answered =>
       (toolOut.st = "threw" <=> call.name \notin {"analyze_image", "list_models"})

\* a call whose source is a number was answered with isError before the controller
\* was invoked
C26_Witness ==
  /\ pc = "replied"
  /\ call.name = "analyze_image"
  /\ call.src = [type |-> "number", truthy |-> TRUE]
  /\ toolOut.st = "returned"
  /\ toolOut.val.isError
  /\ ctrlOut = Pending

----------------------------------------------------------------------------
(* C27 *)

\* callOpenRouterAPI has returned or thrown
RemoteCallOver == sent # <<>> /\ pc \in {"analyzeSettled", "done"}

\* C27: once callOpenRouterAPI has returned or thrown, on whichever path, its timer
\* is no longer pending (it was cleared, or it has fired and aborted the call); the
\* timer fires only while the call is waiting for the response, and a timer that has
\* fired or was cleared never fires again.
C27_TimerClearedOnEveryExit ==
  /\ [](RemoteCallOver => timer \in {"cleared", "fired"})
  /\ [][(timer' = "fired" /\ timer # "fired") => (timer = "armed" /\ pc = "awaitResponse")]_vars
  /\ [][(timer \in {"cleared", "fired"}) => (timer' = timer)]_vars

\* the call ended with an HTTP error status and its timer is cleared
C27_Witness ==
  /\ RemoteCallOver
  /\ apiOk = Some(FALSE)
  /\ analyzeOut.st = "threw"
  /\ timer = "cleared"

----------------------------------------------------------------------------
(* C28 *)

\* the process has exited through shutdown handler h
ExitedThrough(h) == proc.exit # None /\ proc.exit[1].by = h

\* the stop() that handler h called has settled
StopSettled(h) == h <= Len(proc.handlers) /\ proc.handlers[h].closed # "pending"

\* C28: when the process exits through a shutdown handler, that handler had called
\* stop (so McpServer.stop was attempted) and stop had settled, and the exit code is 0
\* for SIGINT, SIGTERM and SIGQUIT and 1 for an uncaught exception or an unhandled
\* rejection; and once the stop of a handler has settled, by success or by failure,
\* the process exits.
C28_ExitAfterStop ==
  /\ [](\A h \in 1..MaxEvents :
          ExitedThrough(h) =>
            /\ StopSettled(h)
            /\ proc.closeCalls >= 1
            /\ proc.exit[1].code = IF proc.handlers[h].event \in Signals THEN 0 ELSE 1)
  /\ \A h \in 1..MaxEvents : StopSettled(h) ~> (proc.exit # None)

\* the process exited with code 0 through a SIGTERM handler whose server.close() had
\* failed
C28_Witness ==
  \E h \in 1..MaxEvents :
    /\ ExitedThrough(h)
    /\ proc.handlers[h].event = "SIGTERM"
    /\ proc.handlers[h].closed = "rejected"
    /\ proc.exit[1].code = 0

----------------------------------------------------------------------------
(* C29 *)

\* the two messages of execute's own checks after loadImage
RecheckMessages == {"Failed to load image data", "Invalid image format or size"}

\* C29: whenever loadImage has returned, the returned source has bytes and
\* validateImage accepts them again, so execute's own checks after the load never
\* fail: no outcome of execute carries 'Failed to load image data' or 'Invalid image
\* format or size'.
C29_RecheckIsRedundant ==
  /\ loadOut.st = "returned" =>
       /\ loadOut.val.data # None
       /\ validateImage(loadOut.val.data[1]) = Returned(TRUE)
       /\ revalid \in {Pending, Returned(TRUE)}
  /\ execOut.st = "threw" => execOut.err.msg \cap RecheckMessages = {}

\* execute has validated the loaded bytes a second time and gone on to the analysis
C29_Witness ==
  /\ loadOut.st = "returned"
  /\ revalid = Returned(TRUE)
  /\ pc = "analyzeImage"

----------------------------------------------------------------------------
(* C30 *)

\* the three properties validateConfig is there to keep
ValidConfig(config) ==
  /\ config.openRouter.apiKey # ""
  /\ config.image.maxSizeBytes # NaN /\ config.image.maxSizeBytes[1] > 0
  /\ config.logging.level \in LogLevels

\* C30: a ConfigManager cannot be constructed without an API key; once constructed,
\* and after any updateConfig calls, the configuration it holds and returns has a
\* non-empty API key, a positive maximum image size and a known log level; and an
\* updateConfig call that threw has left the held configuration as it was.
C30_ConfigStaysValid ==
  /\ cfg.phase = "constructed" => ~(cfg.env.OPENROUTER_API_KEY \in {None, Some("")})
  /\ cfg.phase = "constructed" =>
       /\ ValidConfig(getConfig)
       /\ cfg.last.st = "threw" => cfg.config = cfg.before

====
